---- MODULE Spec2Model ----
(***************************************************************************)
(* Model of key_automaton.py, the API Key Automaton service: three         *)
(* module-level lists (api_keys_db, allocations_db, audit_log_db), the     *)
(* admin-key dependency and the route handlers that read and write them.   *)
(*                                                                         *)
(* Spec      : requests are served one at a time, one action per handler.  *)
(* SpecConc  : the handlers are plain `def` routes, which the framework    *)
(*             runs on worker threads; each thread executes its handler    *)
(*             statement by statement and the threads interleave.          *)
(***************************************************************************)
EXTENDS Integers, Sequences, FiniteSets, TLC

VARIABLES api_keys_db,     \* list of credential dicts
          allocations_db,  \* list of allocation dicts
          audit_log_db,    \* list of audit dicts
          now,             \* the wall clock read by datetime.now()
          resp,            \* Spec: the request just served and its response
          pc,              \* SpecConc: per thread, the statement it is at
          req,             \* SpecConc: per thread, the request it is serving
          loc,             \* SpecConc: per thread, the handler's locals
          overlap          \* SpecConc: per thread, the threads whose requests
                           \*           were in flight during its request

dbs  == <<api_keys_db, allocations_db, audit_log_db>>
thr  == <<pc, req, loc, overlap>>
vars == <<api_keys_db, allocations_db, audit_log_db, now, resp, pc, req, loc, overlap>>

(***************************************************************************)
(* Bounds                                                                  *)
(***************************************************************************)
MaxAudit   == 2    \* mutating requests accepted (each appends one audit entry)
MaxTicks   == 1    \* minutes the clock may advance after start-up
NumThreads == 2    \* worker threads in SpecConc
MaxLog     == 102  \* audit entries written in SpecAudit

(***************************************************************************)
(* Python values                                                           *)
(***************************************************************************)
None    == <<>>        \* Optional: None is <<>>, a present value v is <<v>>
Some(v) == <<v>>

\* datetime(2024, mo, d, h, mi, 0) as minutes, months taken as 31 days
DateTime(mo, d, h, mi) == (((mo - 1) * 31 + (d - 1)) * 24 + h) * 60 + mi

\* the service starts after the latest seeded timestamp
StartTime == DateTime(2, 8, 0, 0)

\* datetime.isoformat(): a string, not the datetime itself
isoformat(t) == "T" \o ToString(t)

\* f"{n:03d}": decimal, zero-padded to at least three digits
Fmt03d(n) == IF n < 10 THEN "00" \o ToString(n)
             ELSE IF n < 100 THEN "0" \o ToString(n)
             ELSE ToString(n)

\* json.dumps of a dict with at most the one key "action"
JsonDumps(p) == IF DOMAIN p = {} THEN "{}"
                ELSE "{\"action\": \"" \o p["action"] \o "\"}"

(***************************************************************************)
(* Security                                                                *)
(***************************************************************************)
ADMIN_KEYS == {Some("demo-admin-key-change-me")}

\* a bug that lets a request without the header through
require_admin_SkipMissing(api_key) ==
    IF api_key # None /\ api_key \notin ADMIN_KEYS
    THEN [raised |-> TRUE, status_code |-> 401,
          detail |-> "Invalid or missing admin API key"]
    ELSE [raised |-> FALSE, value |-> api_key]

require_admin(api_key) ==
    IF api_key \notin ADMIN_KEYS
    THEN [raised |-> TRUE, status_code |-> 401,
          detail |-> "Invalid or missing admin API key"]
    ELSE [raised |-> FALSE, value |-> api_key]

(***************************************************************************)
(* Request inputs                                                          *)
(***************************************************************************)
ApiKeyInputs == {Some("demo-admin-key-change-me"), Some("guess"), None}

KeyCreateInputs ==
    { [system_name |-> "Redis", system_type |-> "cache", env |-> "dev",
       name |-> n, key_ref |-> "vault://r"] : n \in {"Cache", ""} }

\* a seeded id, the id the first create_key assigns, and an id written
\* without zero padding
KeyIdInputs == {"key-001", "key-004", "key-4"}

ConsumerInputs == {"Server-01", "Worker-9"}

ScopeInputs == { [read |-> TRUE], [read |-> FALSE] }

AllocationCreate(k, c, sc) ==
    [key_id |-> k, consumer_type |-> "service", consumer_id |-> c, scope |-> sc]

\* one key and each consumer under each scope (one consumer is already in the
\* seeded allocated_to of that key), a created key and an unknown key
AllocationCreateInputs ==
    { AllocationCreate("key-001", c, sc) : c \in ConsumerInputs, sc \in ScopeInputs }
    \cup { AllocationCreate("key-004", "Worker-9", [read |-> TRUE]),
           AllocationCreate("key-4", "Worker-9", [read |-> TRUE]) }

SystemRequestInputs == { <<>>, [action |-> "scan"] }

(***************************************************************************)
(* In-memory storage                                                       *)
(***************************************************************************)
SeedKeys ==
    << [id |-> "key-001", name |-> "Production Database",
        system_name |-> "PostgreSQL", system_type |-> "db", env |-> "prod",
        status |-> "active",
        last_used_at |-> Some(DateTime(2, 7, 12, 0)),
        last_rotated_at |-> Some(DateTime(2, 1, 0, 0)),
        allocated_to |-> <<"Server-01", "Server-02">>],
       [id |-> "key-002", name |-> "Payment Gateway",
        system_name |-> "Stripe", system_type |-> "payments", env |-> "prod",
        status |-> "active",
        last_used_at |-> Some(DateTime(2, 6, 18, 30)),
        last_rotated_at |-> Some(DateTime(1, 15, 0, 0)),
        allocated_to |-> <<"API-Gateway">>],
       [id |-> "key-003", name |-> "Cloud Storage",
        system_name |-> "AWS S3", system_type |-> "storage", env |-> "prod",
        status |-> "active",
        last_used_at |-> None,
        last_rotated_at |-> Some(DateTime(2, 5, 0, 0)),
        allocated_to |-> <<>>] >>

Threads == 1 .. NumThreads

NoReq  == [op |-> "none", api_key |-> None, key_id |-> None, payload |-> <<>>]
NoLoc  == [key_id |-> None, key_found |-> 0, allocation |-> <<>>,
           status_code |-> 0]
NoResp == [op |-> "none", api_key |-> None, key_id |-> None,
           status_code |-> 0, body |-> [detail |-> "none"]]

Init ==
    /\ api_keys_db = SeedKeys
    /\ allocations_db = <<>>
    /\ audit_log_db = <<>>
    /\ now = StartTime
    /\ resp = NoResp
    /\ pc = [t \in Threads |-> "idle"]
    /\ req = [t \in Threads |-> NoReq]
    /\ loc = [t \in Threads |-> NoLoc]
    /\ overlap = [t \in Threads |-> {}]

(***************************************************************************)
(* Handler bodies, as functions of the lists they read                     *)
(***************************************************************************)
\* the clock values a datetime.now() may return, given the last one read
ClockReads(t0) == { t \in t0 .. (t0 + 1) : t <= StartTime + MaxTicks }

\* f"key-{len(api_keys_db):03d}": the id of the last credential, not a new one
NewKeyId_NoPlusOne(keys) == "key-" \o Fmt03d(Len(keys))

\* f"key-{len(api_keys_db) + 1:03d}"
NewKeyId(keys) == "key-" \o Fmt03d(Len(keys) + 1)

NewKey(key_id, payload, t) ==
    [id |-> key_id, name |-> payload.name,
     system_name |-> payload.system_name, system_type |-> payload.system_type,
     env |-> payload.env, status |-> "active",
     last_used_at |-> None, last_rotated_at |-> Some(t),
     allocated_to |-> <<>>]

\* the audit entry names the credential by its display name
CreateAudit_NameAsId(key_id, payload, t) ==
    [timestamp |-> isoformat(t), action |-> "create_key", key_id |-> payload.name,
     details |-> "Created key '" \o payload.name \o "'"]

CreateAudit(key_id, payload, t) ==
    [timestamp |-> isoformat(t), action |-> "create_key", key_id |-> key_id,
     details |-> "Created key '" \o payload.name \o "'"]

\* key_found initialised to the first credential instead of None
FindKey_FirstOnMiss(keys, key_id) ==
    LET hits == { i \in 1 .. Len(keys) : keys[i].id = key_id }
    IN  IF hits = {} THEN 1
        ELSE CHOOSE i \in hits : \A j \in hits : i <= j

\* the loop variable used after the loop: the last credential when none matches
FindKey_LoopVar(keys, key_id) ==
    LET hits == { i \in 1 .. Len(keys) : keys[i].id = key_id }
    IN  IF hits = {} THEN Len(keys)
        ELSE CHOOSE i \in hits : \A j \in hits : i <= j

\* for key in api_keys_db: if key["id"] == key_id: ... break
\* the index of the first credential with that id, 0 when the loop finds none
FindKey(keys, key_id) ==
    LET hits == { i \in 1 .. Len(keys) : keys[i].id = key_id }
    IN  IF hits = {} THEN 0
        ELSE CHOOSE i \in hits : \A j \in hits : i <= j

InList(x, s) == \E i \in 1 .. Len(s) : s[i] = x

\* the membership test inverted: only a consumer already listed is appended
AddConsumer_Inverted(keys, i, consumer_id) ==
    IF InList(consumer_id, keys[i].allocated_to)
    THEN [keys EXCEPT ![i].allocated_to = Append(@, consumer_id)]
    ELSE keys

\* if consumer_id not in key_found["allocated_to"]: append
AddConsumer(keys, i, consumer_id) ==
    IF InList(consumer_id, keys[i].allocated_to)
    THEN keys
    ELSE [keys EXCEPT ![i].allocated_to = Append(@, consumer_id)]

NewAllocation(allocs, payload, t) ==
    [id |-> "alloc-" \o Fmt03d(Len(allocs) + 1),
     key_id |-> payload.key_id, consumer_type |-> payload.consumer_type,
     consumer_id |-> payload.consumer_id, scope |-> payload.scope,
     created_at |-> isoformat(t)]

AllocateAudit(payload, t) ==
    [timestamp |-> isoformat(t), action |-> "allocate_key",
     key_id |-> payload.key_id,
     details |-> "Allocated to " \o payload.consumer_id]

\* a rotation that also marks the key deprecated
SetRotated_Deprecates(keys, i, t) ==
    [keys EXCEPT ![i].last_rotated_at = Some(t), ![i].status = "deprecated"]

\* a rotation that also drops the consumers of the key
SetRotated_ClearsAllocated(keys, i, t) ==
    [keys EXCEPT ![i].last_rotated_at = Some(t), ![i].allocated_to = <<>>]

\* key_found["last_rotated_at"] = datetime.now()
SetRotated(keys, i, t) == [keys EXCEPT ![i].last_rotated_at = Some(t)]

RotateAudit(keys, i, key_id, t) ==
    [timestamp |-> isoformat(t), action |-> "rotate_key", key_id |-> key_id,
     details |-> "Rotated key '" \o keys[i].name \o "'"]

SystemRequestAudit(payload, t) ==
    [timestamp |-> isoformat(t), action |-> "system_request",
     details |-> JsonDumps(payload)]

\* audit_log_db[-100:]
AuditTailLen == 100
\* audit_log_db[:100]: the oldest entries instead of the newest
LastEntries_Head(log) ==
    IF Len(log) <= AuditTailLen THEN log
    ELSE SubSeq(log, 1, AuditTailLen)

LastEntries(log) ==
    IF Len(log) <= AuditTailLen THEN log
    ELSE SubSeq(log, Len(log) - AuditTailLen + 1, Len(log))

KeyNotFound == [detail |-> "Key not found"]

\* the list returned newest first
ListKeys_Reversed(keys) == [i \in 1 .. Len(keys) |-> keys[Len(keys) + 1 - i]]

\* return api_keys_db
ListKeys(keys) == keys

\* return allocations_db
ListAllocations(allocs) == allocs

\* list.insert(0, entry) in place of list.append(entry)
AuditAppend_Insert0(log, entry) == <<entry>> \o log

\* the entry written twice
AuditAppend_Twice(log, entry) == Append(Append(log, entry), entry)

\* audit_log_db.append({...})
AuditAppend(log, entry) == Append(log, entry)

\* the bound on accepted mutating requests
MayMutate == Len(audit_log_db) < MaxAudit

(***************************************************************************)
(* Spec: one action per route, the admin dependency included               *)
(***************************************************************************)
Respond(op, api_key, key_id, code, body) ==
    resp' = [op |-> op, api_key |-> api_key, key_id |-> key_id,
             status_code |-> code, body |-> body]

\* the dependency raised: the handler body never runs
Rejected(op, api_key, key_id) ==
    /\ Respond(op, api_key, key_id, require_admin(api_key).status_code,
               [detail |-> require_admin(api_key).detail])
    /\ UNCHANGED <<api_keys_db, allocations_db, audit_log_db, now>>

root ==
    /\ Respond("root", None, None, 200,
               [service |-> "API Key Automaton", version |-> "1.0.0",
                status |-> "running"])
    /\ UNCHANGED <<api_keys_db, allocations_db, audit_log_db, now, thr>>

health ==
    \E t \in ClockReads(now) :
        /\ Respond("health", None, None, 200,
                   [status |-> "healthy", timestamp |-> isoformat(t),
                    keys_count |-> Len(api_keys_db)])
        /\ now' = t
        /\ UNCHANGED <<api_keys_db, allocations_db, audit_log_db, thr>>

create_key ==
    \E api_key \in ApiKeyInputs :
        /\ UNCHANGED thr
        /\ IF require_admin(api_key).raised
           THEN Rejected("create_key", api_key, None)
           ELSE \E payload \in KeyCreateInputs :
                \E t1 \in ClockReads(now) : \E t2 \in ClockReads(t1) :
                  LET key_id == NewKeyId(api_keys_db) IN
                  /\ MayMutate
                  /\ api_keys_db' = Append(api_keys_db, NewKey(key_id, payload, t1))
                  /\ audit_log_db' = AuditAppend(audit_log_db,
                                                 CreateAudit(key_id, payload, t2))
                  /\ now' = t2
                  /\ Respond("create_key", api_key, None, 200,
                             [status |-> "ok", key_id |-> key_id])
                  /\ UNCHANGED allocations_db

list_keys ==
    \E api_key \in ApiKeyInputs :
        /\ UNCHANGED thr
        /\ IF require_admin(api_key).raised
           THEN Rejected("list_keys", api_key, None)
           ELSE /\ Respond("list_keys", api_key, None, 200,
                           [keys |-> ListKeys(api_keys_db)])
                /\ UNCHANGED <<api_keys_db, allocations_db, audit_log_db, now>>

get_key ==
    \E api_key \in ApiKeyInputs :
        /\ UNCHANGED <<thr, api_keys_db, allocations_db, audit_log_db, now>>
        /\ IF require_admin(api_key).raised
           THEN Rejected("get_key", api_key, None)
           ELSE \E key_id \in KeyIdInputs :
                LET i == FindKey(api_keys_db, key_id) IN
                IF i = 0
                THEN Respond("get_key", api_key, Some(key_id), 404, KeyNotFound)
                ELSE Respond("get_key", api_key, Some(key_id), 200,
                             [key |-> api_keys_db[i]])

allocate_key ==
    \E api_key \in ApiKeyInputs :
        /\ UNCHANGED thr
        /\ IF require_admin(api_key).raised
           THEN Rejected("allocate_key", api_key, None)
           ELSE \E payload \in AllocationCreateInputs :
                LET i == FindKey(api_keys_db, payload.key_id) IN
                IF i = 0
                THEN /\ Respond("allocate_key", api_key, Some(payload.key_id),
                                404, KeyNotFound)
                     /\ UNCHANGED <<api_keys_db, allocations_db, audit_log_db, now>>
                ELSE \E t1 \in ClockReads(now) : \E t2 \in ClockReads(t1) :
                       LET allocation == NewAllocation(allocations_db, payload, t1) IN
                       /\ MayMutate
                       /\ api_keys_db' = AddConsumer(api_keys_db, i, payload.consumer_id)
                       /\ allocations_db' = Append(allocations_db, allocation)
                       /\ audit_log_db' = AuditAppend(audit_log_db,
                                                      AllocateAudit(payload, t2))
                       /\ now' = t2
                       /\ Respond("allocate_key", api_key, Some(payload.key_id), 200,
                                  [status |-> "allocated",
                                   allocation_id |-> allocation.id])

list_allocations ==
    \E api_key \in ApiKeyInputs :
        /\ UNCHANGED thr
        /\ IF require_admin(api_key).raised
           THEN Rejected("list_allocations", api_key, None)
           ELSE /\ Respond("list_allocations", api_key, None, 200,
                           [allocations |-> ListAllocations(allocations_db)])
                /\ UNCHANGED <<api_keys_db, allocations_db, audit_log_db, now>>

rotate_key ==
    \E api_key \in ApiKeyInputs :
        /\ UNCHANGED thr
        /\ IF require_admin(api_key).raised
           THEN Rejected("rotate_key", api_key, None)
           ELSE \E key_id \in KeyIdInputs :
                LET i == FindKey(api_keys_db, key_id) IN
                IF i = 0
                THEN /\ Respond("rotate_key", api_key, Some(key_id), 404, KeyNotFound)
                     /\ UNCHANGED <<api_keys_db, allocations_db, audit_log_db, now>>
                ELSE \E t1 \in ClockReads(now) : \E t2 \in ClockReads(t1) :
                       /\ MayMutate
                       /\ api_keys_db' = SetRotated(api_keys_db, i, t1)
                       /\ audit_log_db' = AuditAppend(audit_log_db,
                                              RotateAudit(api_keys_db, i, key_id, t2))
                       /\ now' = t2
                       /\ Respond("rotate_key", api_key, Some(key_id), 200,
                                  [status |-> "rotated", key_id |-> key_id])
                       /\ UNCHANGED allocations_db

get_audit_log ==
    \E api_key \in ApiKeyInputs :
        /\ UNCHANGED thr
        /\ IF require_admin(api_key).raised
           THEN Rejected("get_audit_log", api_key, None)
           ELSE /\ Respond("get_audit_log", api_key, None, 200,
                           [entries |-> LastEntries(audit_log_db)])
                /\ UNCHANGED <<api_keys_db, allocations_db, audit_log_db, now>>

system_request ==
    \E api_key \in ApiKeyInputs :
        /\ UNCHANGED thr
        /\ IF require_admin(api_key).raised
           THEN Rejected("system_request", api_key, None)
           ELSE \E payload \in SystemRequestInputs :
                \E t \in ClockReads(now) :
                  /\ MayMutate
                  /\ audit_log_db' = AuditAppend(audit_log_db,
                                                 SystemRequestAudit(payload, t))
                  /\ now' = t
                  /\ Respond("system_request", api_key, None, 200,
                             [status |-> "logged"])
                  /\ UNCHANGED <<api_keys_db, allocations_db>>

Next ==
    \/ root
    \/ health
    \/ create_key
    \/ list_keys
    \/ get_key
    \/ allocate_key
    \/ list_allocations
    \/ rotate_key
    \/ get_audit_log
    \/ system_request

Spec == Init /\ [][Next]_vars

(***************************************************************************)
(* SpecConc: the mutating handlers, one statement at a time per thread     *)
(***************************************************************************)
InFlight(t) == pc[t] \notin {"idle", "done"}

\* a new request is accepted while the mutations accepted so far, finished
\* or in flight, stay below the bound
MayBegin ==
    Len(audit_log_db) + Cardinality({u \in Threads : InFlight(u)}) < MaxAudit

Goto(t, label) == pc' = [pc EXCEPT ![t] = label]

\* the handler returns or raises: its locals are gone, the response stays
\* (the status code and, for create_key, the key_id of the body)
Return(t, code) ==
    /\ pc' = [pc EXCEPT ![t] = "done"]
    /\ loc' = [loc EXCEPT ![t] = [NoLoc EXCEPT !.key_id = loc[t].key_id,
                                               !.status_code = code]]

\* the worker picks up a request; the admin dependency runs first
Begin(t) ==
    /\ ~InFlight(t)
    /\ \E api_key \in ApiKeyInputs :
         IF require_admin(api_key).raised
         THEN \* 401 whatever the route: no handler runs
              /\ req' = [req EXCEPT ![t] = [NoReq EXCEPT !.op = "rejected",
                                                        !.api_key = api_key]]
              /\ loc' = [loc EXCEPT ![t] =
                           [NoLoc EXCEPT !.status_code =
                                           require_admin(api_key).status_code]]
              /\ pc' = [pc EXCEPT ![t] = "done"]
              /\ overlap' = [u \in Threads |->
                               IF u = t THEN {} ELSE overlap[u] \ {t}]
         ELSE /\ MayBegin
              /\ \/ \E payload \in KeyCreateInputs :
                      /\ req' = [req EXCEPT ![t] =
                                   [op |-> "create_key", api_key |-> api_key,
                                    key_id |-> None, payload |-> payload]]
                      /\ Goto(t, "create_id")
                 \/ \E payload \in AllocationCreateInputs :
                      /\ req' = [req EXCEPT ![t] =
                                   [op |-> "allocate_key", api_key |-> api_key,
                                    key_id |-> Some(payload.key_id),
                                    payload |-> payload]]
                      /\ Goto(t, "alloc_find")
                 \/ \E key_id \in KeyIdInputs :
                      /\ req' = [req EXCEPT ![t] =
                                   [op |-> "rotate_key", api_key |-> api_key,
                                    key_id |-> Some(key_id), payload |-> <<>>]]
                      /\ Goto(t, "rot_find")
              /\ loc' = [loc EXCEPT ![t] = NoLoc]
              /\ overlap' = [u \in Threads |->
                               IF u = t THEN {v \in Threads : InFlight(v)}
                               ELSE IF InFlight(u) THEN overlap[u] \cup {t}
                               ELSE overlap[u] \ {t}]
    /\ UNCHANGED <<api_keys_db, allocations_db, audit_log_db, now, resp>>

\* key_id = f"key-{len(api_keys_db) + 1:03d}"
create_id(t) ==
    /\ pc[t] = "create_id"
    /\ loc' = [loc EXCEPT ![t].key_id = Some(NewKeyId(api_keys_db))]
    /\ Goto(t, "create_append")
    /\ UNCHANGED <<api_keys_db, allocations_db, audit_log_db, now, resp, req, overlap>>

\* new_key = {...}; api_keys_db.append(new_key)
create_append(t) ==
    /\ pc[t] = "create_append"
    /\ \E t1 \in ClockReads(now) :
         /\ api_keys_db' = Append(api_keys_db,
                                  NewKey(loc[t].key_id[1], req[t].payload, t1))
         /\ now' = t1
    /\ Goto(t, "create_audit")
    /\ UNCHANGED <<allocations_db, audit_log_db, resp, req, loc, overlap>>

\* audit_log_db.append({...}); return
create_audit(t) ==
    /\ pc[t] = "create_audit"
    /\ \E t2 \in ClockReads(now) :
         /\ audit_log_db' = AuditAppend(audit_log_db,
                               CreateAudit(loc[t].key_id[1], req[t].payload, t2))
         /\ now' = t2
    /\ Return(t, 200)
    /\ UNCHANGED <<api_keys_db, allocations_db, resp, req, overlap>>

\* the lookup loop of allocate_key and the 404 after it
alloc_find(t) ==
    /\ pc[t] = "alloc_find"
    /\ LET i == FindKey(api_keys_db, req[t].payload.key_id) IN
       IF i = 0
       THEN Return(t, 404)
       ELSE /\ loc' = [loc EXCEPT ![t].key_found = i]
            /\ Goto(t, "alloc_check")
    /\ UNCHANGED <<api_keys_db, allocations_db, audit_log_db, now, resp, req, overlap>>

\* if payload.consumer_id not in key_found["allocated_to"]:
alloc_check(t) ==
    /\ pc[t] = "alloc_check"
    /\ IF InList(req[t].payload.consumer_id,
                 api_keys_db[loc[t].key_found].allocated_to)
       THEN Goto(t, "alloc_record")
       ELSE Goto(t, "alloc_add")
    /\ UNCHANGED <<api_keys_db, allocations_db, audit_log_db, now, resp, req, loc,
                   overlap>>

\* key_found["allocated_to"].append(payload.consumer_id)
alloc_add(t) ==
    /\ pc[t] = "alloc_add"
    /\ api_keys_db' = [api_keys_db EXCEPT ![loc[t].key_found].allocated_to =
                                            Append(@, req[t].payload.consumer_id)]
    /\ Goto(t, "alloc_record")
    /\ UNCHANGED <<allocations_db, audit_log_db, now, resp, req, loc, overlap>>

\* allocation = {...}
alloc_record(t) ==
    /\ pc[t] = "alloc_record"
    /\ \E t1 \in ClockReads(now) :
         /\ loc' = [loc EXCEPT ![t].allocation =
                      Some(NewAllocation(allocations_db, req[t].payload, t1))]
         /\ now' = t1
    /\ Goto(t, "alloc_append")
    /\ UNCHANGED <<api_keys_db, allocations_db, audit_log_db, resp, req, overlap>>

\* allocations_db.append(allocation)
alloc_append(t) ==
    /\ pc[t] = "alloc_append"
    /\ allocations_db' = Append(allocations_db, loc[t].allocation[1])
    /\ Goto(t, "alloc_audit")
    /\ UNCHANGED <<api_keys_db, audit_log_db, now, resp, req, loc, overlap>>

\* audit_log_db.append({...}); return
alloc_audit(t) ==
    /\ pc[t] = "alloc_audit"
    /\ \E t2 \in ClockReads(now) :
         /\ audit_log_db' = AuditAppend(audit_log_db,
                                        AllocateAudit(req[t].payload, t2))
         /\ now' = t2
    /\ Return(t, 200)
    /\ UNCHANGED <<api_keys_db, allocations_db, resp, req, overlap>>

\* the lookup loop of rotate_key and the 404 after it
rot_find(t) ==
    /\ pc[t] = "rot_find"
    /\ LET i == FindKey(api_keys_db, req[t].key_id[1]) IN
       IF i = 0
       THEN Return(t, 404)
       ELSE /\ loc' = [loc EXCEPT ![t].key_found = i]
            /\ Goto(t, "rot_set")
    /\ UNCHANGED <<api_keys_db, allocations_db, audit_log_db, now, resp, req, overlap>>

\* key_found["last_rotated_at"] = datetime.now()
rot_set(t) ==
    /\ pc[t] = "rot_set"
    /\ \E t1 \in ClockReads(now) :
         /\ api_keys_db' = SetRotated(api_keys_db, loc[t].key_found, t1)
         /\ now' = t1
    /\ Goto(t, "rot_audit")
    /\ UNCHANGED <<allocations_db, audit_log_db, resp, req, loc, overlap>>

\* audit_log_db.append({...}); return
rot_audit(t) ==
    /\ pc[t] = "rot_audit"
    /\ \E t2 \in ClockReads(now) :
         /\ audit_log_db' = AuditAppend(audit_log_db,
                               RotateAudit(api_keys_db, loc[t].key_found,
                                           req[t].key_id[1], t2))
         /\ now' = t2
    /\ Return(t, 200)
    /\ UNCHANGED <<api_keys_db, allocations_db, resp, req, overlap>>

NextConc ==
    \E t \in Threads :
        \/ Begin(t)
        \/ create_id(t)
        \/ create_append(t)
        \/ create_audit(t)
        \/ alloc_find(t)
        \/ alloc_check(t)
        \/ alloc_add(t)
        \/ alloc_record(t)
        \/ alloc_append(t)
        \/ alloc_audit(t)
        \/ rot_find(t)
        \/ rot_set(t)
        \/ rot_audit(t)

SpecConc == Init /\ [][NextConc]_vars

(***************************************************************************)
(* SpecAudit: a long audit log.  An admin posts system requests, a minute  *)
(* apart, and reads the audit log in between.                              *)
(***************************************************************************)
AdminKey == CHOOSE k \in ApiKeyInputs : ~require_admin(k).raised

log_system_request ==
    /\ Len(audit_log_db) < MaxLog
    /\ audit_log_db' = AuditAppend(audit_log_db,
                           SystemRequestAudit([action |-> "scan"], now + 1))
    /\ now' = now + 1
    /\ Respond("system_request", AdminKey, None, 200, [status |-> "logged"])
    /\ UNCHANGED <<api_keys_db, allocations_db, thr>>

read_audit_log ==
    /\ Respond("get_audit_log", AdminKey, None, 200,
               [entries |-> LastEntries(audit_log_db)])
    /\ UNCHANGED <<api_keys_db, allocations_db, audit_log_db, now, thr>>

NextAudit ==
    \/ log_system_request
    \/ read_audit_log

SpecAudit == Init /\ [][NextAudit]_vars

(***************************************************************************)
(* Properties                                                              *)
(***************************************************************************)
Privileged == {"create_key", "list_keys", "get_key", "allocate_key",
               "list_allocations", "rotate_key", "get_audit_log",
               "system_request"}

Mutating == {"create_key", "allocate_key", "rotate_key", "system_request"}

HasKey(keys, key_id) == \E i \in 1 .. Len(keys) : keys[i].id = key_id

KeyIndex(keys, key_id) == CHOOSE i \in 1 .. Len(keys) : keys[i].id = key_id

IsPrefix(s, t) == Len(s) <= Len(t) /\ SubSeq(t, 1, Len(s)) = s

\* the request just served succeeded on route op
Served(r, op) == r.op = op /\ r.status_code = 200

\* C1: a privileged route called with a missing or non-admin key answers 401
\* and leaves api_keys_db, allocations_db and audit_log_db as they were.
C1_UnauthorizedIsNoOp ==
    [][ (resp'.op \in Privileged /\ resp'.api_key \notin ADMIN_KEYS)
          => (resp'.status_code = 401 /\ UNCHANGED dbs) ]_vars

\* a request without the header was rejected after the lists had grown
C1_Witness ==
    /\ resp.op = "rotate_key" /\ resp.api_key = None /\ resp.status_code = 401
    /\ Len(audit_log_db) = 1 /\ Len(api_keys_db) = 4

\* C2: with requests served one at a time, the credential ids are pairwise
\* distinct and a credential keeps the id it was given, so no id is ever
\* given to a second credential.
C2_IdsUniqueAndStable ==
    [][ /\ \A i, j \in 1 .. Len(api_keys_db') :
             api_keys_db'[i].id = api_keys_db'[j].id => i = j
        /\ \A i, j \in 1 .. Len(api_keys_db) :
             api_keys_db[i].id = api_keys_db[j].id => i = j
        /\ Len(api_keys_db') >= Len(api_keys_db)
        /\ \A i \in 1 .. Len(api_keys_db) :
             api_keys_db'[i].id = api_keys_db[i].id ]_vars

\* two credentials were created after the seeded three
C2_Witness ==
    /\ Len(api_keys_db) = 5
    /\ api_keys_db[4].id = "key-004" /\ api_keys_db[5].id = "key-005"

\* C3: rotate_key, allocate_key and get_key on an id that no credential has
\* answer 404 and change none of the three lists.
C3_NotFoundIsNoOp ==
    [][ ( /\ resp'.op \in {"rotate_key", "allocate_key", "get_key"}
          /\ resp'.api_key \in ADMIN_KEYS
          /\ resp'.key_id # None
          /\ ~HasKey(api_keys_db, resp'.key_id[1]) )
          => (resp'.status_code = 404 /\ UNCHANGED dbs) ]_vars

\* key-004 exists, yet the unpadded id key-4 is not found
C3_Witness ==
    /\ resp.op = "allocate_key" /\ resp.status_code = 404
    /\ resp.key_id = Some("key-4")
    /\ HasKey(api_keys_db, "key-004")

\* C4: allocations_db holds at most one record per (key_id, consumer_id).
C4_OneAllocationPerPair ==
    \A i, j \in 1 .. Len(allocations_db) :
        ( /\ allocations_db[i].key_id = allocations_db[j].key_id
          /\ allocations_db[i].consumer_id = allocations_db[j].consumer_id )
        => i = j

\* C5: of two rotate_key requests on the same existing key whose executions
\* overlap, exactly one succeeds and the other fails with RotationInProgress
\* (409).
C5_ConcurrentRotateExclusive ==
    \A t1, t2 \in Threads :
        ( /\ t1 # t2
          /\ pc[t1] = "done" /\ pc[t2] = "done"
          /\ req[t1].op = "rotate_key" /\ req[t2].op = "rotate_key"
          /\ req[t1].key_id = req[t2].key_id
          /\ t2 \in overlap[t1]
          /\ loc[t1].status_code # 404 /\ loc[t2].status_code # 404 )
        => {loc[t1].status_code, loc[t2].status_code} = {200, 409}

\* C6: after a successful rotate_key the rotated key is Deprecated, not Active.
C6_RotateDeprecates ==
    Served(resp, "rotate_key")
        => api_keys_db[KeyIndex(api_keys_db, resp.key_id[1])].status = "deprecated"

\* C7: a successful rotate_key raises the currentVersion of the key by one.
C7_RotateBumpsVersion ==
    [][ Served(resp', "rotate_key") =>
          LET i == KeyIndex(api_keys_db, resp'.key_id[1]) IN
          /\ "currentVersion" \in DOMAIN api_keys_db[i]
          /\ "currentVersion" \in DOMAIN api_keys_db'[i]
          /\ api_keys_db'[i].currentVersion = api_keys_db[i].currentVersion + 1
      ]_vars

\* C8: a successful rotate_key on K changes nothing but K's last_rotated_at
\* and appends one rotate_key audit entry for K.
C8_RotateFrame ==
    [][ Served(resp', "rotate_key") =>
          LET i == KeyIndex(api_keys_db, resp'.key_id[1]) IN
          /\ allocations_db' = allocations_db
          /\ Len(api_keys_db') = Len(api_keys_db)
          /\ \A j \in 1 .. Len(api_keys_db) :
               j # i => api_keys_db'[j] = api_keys_db[j]
          /\ [api_keys_db'[i] EXCEPT !.last_rotated_at =
                                       api_keys_db[i].last_rotated_at]
               = api_keys_db[i]
          /\ Len(audit_log_db') = Len(audit_log_db) + 1
          /\ IsPrefix(audit_log_db, audit_log_db')
          /\ audit_log_db'[Len(audit_log_db')].action = "rotate_key"
          /\ audit_log_db'[Len(audit_log_db')].key_id = resp'.key_id[1]
      ]_vars

\* key-001 was rotated at a new time while an allocation to it exists
C8_Witness ==
    /\ Served(resp, "rotate_key") /\ resp.key_id = Some("key-001")
    /\ api_keys_db[1].last_rotated_at = Some(StartTime + 1)
    /\ Len(allocations_db) = 1
    /\ api_keys_db[1].allocated_to = <<"Server-01", "Server-02", "Worker-9">>

\* C9: the audit log only grows at its end: the log before a step is a prefix
\* of the log after it.
C9_AuditAppendOnly ==
    [][ IsPrefix(audit_log_db, audit_log_db') ]_vars

\* two entries of different kinds, in the order they were written
C9_Witness ==
    /\ Len(audit_log_db) = 2
    /\ audit_log_db[1].action = "create_key"
    /\ audit_log_db[2].action = "rotate_key"

\* C10: every successful create_key, allocate_key, rotate_key and
\* system_request appends exactly one audit entry and every other request
\* appends none, so the log (empty at start) is as long as the number of
\* successful mutating requests.
C10_OneEntryPerMutation ==
    [][ Len(audit_log_db') =
          Len(audit_log_db)
            + (IF resp'.op \in Mutating /\ resp'.status_code = 200 THEN 1 ELSE 0)
      ]_vars

\* a failed rotate_key after two logged requests
C10_Witness ==
    /\ resp.op = "rotate_key" /\ resp.status_code = 404
    /\ Len(audit_log_db) = 2
    /\ audit_log_db[2].action = "system_request"

\* C11: when create_key requests overlap, the ids they return are pairwise
\* distinct and api_keys_db never holds two credentials with the same id.
C11_ConcurrentCreateDistinct ==
    /\ \A i, j \in 1 .. Len(api_keys_db) :
         api_keys_db[i].id = api_keys_db[j].id => i = j
    /\ \A t1, t2 \in Threads :
         ( /\ t1 # t2
           /\ pc[t1] = "done" /\ pc[t2] = "done"
           /\ req[t1].op = "create_key" /\ req[t2].op = "create_key"
           /\ loc[t1].status_code = 200 /\ loc[t2].status_code = 200 )
         => loc[t1].key_id # loc[t2].key_id

Ids(s) == [i \in 1 .. Len(s) |-> s[i].id]

\* C12: list_keys returns every credential in insertion order and
\* list_allocations every allocation in insertion order, and no request
\* changes the relative order of records already stored.
C12_ListOrderStable ==
    [][ /\ Served(resp', "list_keys") => resp'.body.keys = api_keys_db'
        /\ Served(resp', "list_allocations")
             => resp'.body.allocations = allocations_db'
        /\ IsPrefix(Ids(api_keys_db), Ids(api_keys_db'))
        /\ IsPrefix(Ids(allocations_db), Ids(allocations_db')) ]_vars

\* list_keys answered after a create_key and an allocate_key
C12_Witness ==
    /\ Served(resp, "list_keys")
    /\ Ids(resp.body.keys) = <<"key-001", "key-002", "key-003", "key-004">>
    /\ Len(allocations_db) = 1

\* C13: a successful create_key appends exactly one credential, Active and
\* with no consumers, leaves the other credentials and allocations_db alone,
\* appends a create_key audit entry naming the new id and returns that id.
C13_CreateEffect ==
    [][ Served(resp', "create_key") =>
          LET n == Len(api_keys_db) IN
          /\ Len(api_keys_db') = n + 1
          /\ SubSeq(api_keys_db', 1, n) = api_keys_db
          /\ api_keys_db'[n + 1].status = "active"
          /\ api_keys_db'[n + 1].allocated_to = <<>>
          /\ allocations_db' = allocations_db
          /\ Len(audit_log_db') = Len(audit_log_db) + 1
          /\ IsPrefix(audit_log_db, audit_log_db')
          /\ audit_log_db'[Len(audit_log_db')].action = "create_key"
          /\ audit_log_db'[Len(audit_log_db')].key_id = api_keys_db'[n + 1].id
          /\ resp'.body.key_id = api_keys_db'[n + 1].id
      ]_vars

\* the second create_key returned key-005 and logged it
C13_Witness ==
    /\ Served(resp, "create_key") /\ resp.body.key_id = "key-005"
    /\ api_keys_db[5].id = "key-005"
    /\ audit_log_db[2].key_id = "key-005"

\* C14: create_key never succeeds on a request whose name, system_name,
\* system_type or env is the empty string.
C14_CreateRejectsEmpty ==
    [][ Served(resp', "create_key") =>
          LET k == api_keys_db'[Len(api_keys_db')] IN
          /\ k.name # "" /\ k.system_name # ""
          /\ k.system_type # "" /\ k.env # ""
      ]_vars

\* C15: every allocation record names a credential that is in api_keys_db.
C15_AllocationsReferToKeys ==
    \A a \in 1 .. Len(allocations_db) :
        HasKey(api_keys_db, allocations_db[a].key_id)

\* an allocation against a created key, after an unknown key was refused
C15_Witness ==
    /\ Len(allocations_db) = 1
    /\ allocations_db[1].key_id = "key-004"
    /\ resp.op = "allocate_key" /\ resp.status_code = 404

\* C16: get_audit_log returns the last min(100, n) entries of the n-entry
\* log in the order they were appended, returns no older entry and leaves
\* the log unchanged.
C16_LastHundred ==
    [][ Served(resp', "get_audit_log") =>
          LET n == Len(audit_log_db)
              r == resp'.body.entries
              m == IF n <= 100 THEN n ELSE 100
          IN  /\ audit_log_db' = audit_log_db
              /\ Len(r) = m
              /\ \A k \in 1 .. m : r[k] = audit_log_db[n - m + k]
              /\ \A j \in 1 .. (n - m) : \A k \in 1 .. m : r[k] # audit_log_db[j]
      ]_vars

\* the log has 102 entries and the answer starts at the third
C16_Witness ==
    /\ Served(resp, "get_audit_log")
    /\ Len(audit_log_db) = 102
    /\ Len(resp.body.entries) = 100
    /\ resp.body.entries[1] = audit_log_db[3]
    /\ resp.body.entries[1] # audit_log_db[1]

\* C17: for every allocation record the consumer is in the allocated_to list
\* of the credential the record names, and a successful allocate_key changes
\* the allocated_to list of no other credential.
C17_AllocatedToAgrees ==
    [][ /\ \A a \in 1 .. Len(allocations_db') :
             InList(allocations_db'[a].consumer_id,
                    api_keys_db'[KeyIndex(api_keys_db',
                                          allocations_db'[a].key_id)].allocated_to)
        /\ Served(resp', "allocate_key") =>
             \A j \in 1 .. Len(api_keys_db) :
                 j # KeyIndex(api_keys_db, resp'.key_id[1])
                   => api_keys_db'[j].allocated_to = api_keys_db[j].allocated_to
      ]_vars

\* a new consumer was allocated to the created key-004 only
C17_Witness ==
    /\ Len(allocations_db) = 1
    /\ allocations_db[1].key_id = "key-004"
    /\ allocations_db[1].consumer_id = "Worker-9"
    /\ api_keys_db[4].allocated_to = <<"Worker-9">>
    /\ api_keys_db[1].allocated_to = <<"Server-01", "Server-02">>

\* C18: no allocated_to list holds the same consumer id twice, also while
\* allocate_key requests interleave.
C18_NoDuplicateConsumers ==
    \A i \in 1 .. Len(api_keys_db) :
        \A a, b \in 1 .. Len(api_keys_db[i].allocated_to) :
            api_keys_db[i].allocated_to[a] = api_keys_db[i].allocated_to[b]
              => a = b

\* C19: every credential is 'active' in every state, and an authorised
\* allocate_key or rotate_key on an existing key always succeeds.
C19_StatusAlwaysActive ==
    /\ \A i \in 1 .. Len(api_keys_db) : api_keys_db[i].status = "active"
    /\ ( /\ resp.op \in {"allocate_key", "rotate_key"}
         /\ resp.api_key \in ADMIN_KEYS
         /\ resp.key_id # None
         /\ HasKey(api_keys_db, resp.key_id[1]) )
       => resp.status_code = 200

\* a key was allocated after it had been rotated
C19_Witness ==
    /\ Served(resp, "allocate_key") /\ resp.key_id = Some("key-001")
    /\ Len(audit_log_db) = 2
    /\ audit_log_db[1].action = "rotate_key"
    /\ audit_log_db[1].key_id = "key-001"

====
